---- MODULE Spec2Model ----
(***************************************************************************)
(* mlflow-autostop: a watchdog that polls an MLflow tracking service,      *)
(* compares the metrics of runs with configured thresholds and, on a       *)
(* breach, sends a notification and then sets the run's status to FAILED.  *)
(*                                                                         *)
(* The model follows package mlflow (MonitorSpecificRun, MonitorExperiment,*)
(* MonitorAllActiveRuns, checkRunMetrics, getRunDetails,                   *)
(* getActiveRunsInExperiment, getAllActiveRuns, stopRun).  Every HTTP      *)
(* exchange and every time.Sleep is one step; the tracking service is the  *)
(* environment: it keeps the status of each run and answers every request  *)
(* either with one of the failures the client distinguishes or with a      *)
(* body.                                                                   *)
(***************************************************************************)
EXTENDS Integers, Sequences, FiniteSets, TLC

\* ------------------------------------------------------------------ bounds
MaxMetrics == 2     \* readings in one fetched snapshot

\* ------------------------------------------------------- values of the data
RunIDs == {"r1", "r2"}
Keys == {"loss", "accuracy"}
Values == 0..2
Statuses == {"RUNNING", "FINISHED", "FAILED"}
Modes == {"run", "experiment", "all"}

\* config.MetricThresholds: a map from some of the metric names to a bound;
\* the tables explored are the restrictions of one table to a set of names
FullTable == [k \in Keys |-> IF k = "loss" THEN 1 ELSE 0]
Tables == {[k \in S |-> FullTable[k]] : S \in SUBSET Keys}

\* types.Metric (key and value; the loops read nothing else)
Metric == [key : Keys, value : Values]

\* sequences over S of length at most n
SeqUpTo(S, n) == UNION {[1..k -> S] : k \in 0..n}

\* the metrics list of a response body
MetricLists == SeqUpTo(Metric, MaxMetrics)

\* a list of runs in which no run occurs twice
RunLists(ids) ==
  {s \in SeqUpTo(ids, Cardinality(ids)) :
     \A i, j \in 1..Len(s) : i # j => s[i] # s[j]}

\* the failures a request can end in, in the order the client tests them
Failures == {"transport", "non200", "unreadable", "unparsable"}

\* what the service answers to GET runs/get for a run of status st: a
\* failure, or a body with the run's current status and some metrics
GetResponses(st) ==
  [kind : Failures] \cup [kind : {"ok"}, status : {st}, metrics : MetricLists]

\* what the service answers to POST runs/search: a failure or a list of runs
SearchResponses(ids) ==
  [kind : Failures] \cup [kind : {"ok"}, runs : RunLists(ids)]

\* what the service answers to POST runs/update
UpdateResponses == [kind : {"transport", "non200", "ok"}]

NoRun == [status |-> "", metrics |-> <<>>]
NoMsg == [runID |-> "", key |-> "", value |-> 0, threshold |-> 0]

VARIABLES
  mode,        \* the watch target chosen on the command line
  target,      \* the run ID given with -run-id ("" in the other modes)
  thresholds,  \* config.MetricThresholds
  status,      \* service side: the status of every run
  stopIssued,  \* the runs for which a runs/update has been POSTed so far
  pc,          \* where the watch loop stands
  runID,       \* parameter runID of MonitorSpecificRun / checkRunMetrics
  fetchErr,    \* err of the last getRunDetails ("nil" when it succeeded)
  run,         \* the snapshot returned by the last getRunDetails
  decision,    \* outcome of the last pass over the snapshot
  msg,         \* the fields formatted into msg on a breach
  notifyCalls, \* SendNotification calls made since the last getRunDetails
  notifyErr,   \* err of the last SendNotification (TRUE = non-nil)
  stopCalls,   \* stopRun calls made since the last getRunDetails
  stopErr,     \* err of the last stopRun ("nil" when it succeeded)
  posted,      \* request bodies POSTed by the scan under way or just returned
  resps,       \* the answers received to them
  scanErr,     \* err returned by the last scan ("nil" when none)
  activeRuns,  \* the elements of activeRuns.Runs not yet visited (run IDs)
  waits,       \* seconds slept since the last poll began
  text,        \* the string fmt.Sprintf built for the stop message
  messageChannels,   \* config.MessageChannels
  telegramBotToken,  \* config.TelegramBotToken
  telegramChatID,    \* config.TelegramChatID
  slackWebhookURL,   \* config.SlackWebhookURL
  channels,          \* local channels of SendNotification
  telegramErr,       \* local telegramErr of SendNotification
  slackErr,          \* local slackErr of SendNotification
  sendErr,           \* what SendNotification returned
  telegramCalls,     \* calls of SendTelegramNotification
  slackCalls,        \* calls of SendSlackNotification
  telegramPosts,     \* requests sent to the Telegram API
  slackPosts         \* requests sent to the Slack webhook

\* the configuration, the locals and the traffic of messaging.SendNotification
notifier == <<messageChannels, telegramBotToken, telegramChatID,
              slackWebhookURL, channels, telegramErr, slackErr, sendErr,
              telegramCalls, slackCalls, telegramPosts, slackPosts>>

vars == <<mode, target, thresholds, status, stopIssued, pc, runID, fetchErr,
          run, decision, msg, notifyCalls, notifyErr, stopCalls, stopErr,
          posted, resps, scanErr, activeRuns, waits, text, notifier>>

\* what the watch loops leave alone: the formatted text and the inside of
\* SendNotification, of which they see the returned error only
aside == <<text, notifier>>

config == <<mode, target, thresholds>>
service == <<status, stopIssued>>
\* the locals of one getRunDetails-evaluate-act pass
pass == <<runID, fetchErr, run, decision, msg, notifyCalls, notifyErr,
          stopCalls, stopErr>>
\* the locals of one scan
scan == <<posted, resps, scanErr, activeRuns>>

\* ------------------------------------------------------- threshold check
\* (variant: the comparison taken as greater-or-equal)
Exceeds_orEqual(metric, table) ==
  metric.key \in DOMAIN table /\ metric.value >= table[metric.key]

\* threshold, exists := config.MetricThresholds[metric.Key];
\* exists && metric.Value > threshold
Exceeds(metric, table) ==
  metric.key \in DOMAIN table /\ metric.value > table[metric.key]

\* (variant: the loop without the return, so that the last breach wins)
RECURSIVE FirstBreach_last(_, _, _)
FirstBreach_last(metrics, table, i) ==
  IF i > Len(metrics) THEN 0
  ELSE LET later == FirstBreach_last(metrics, table, i + 1) IN
       IF later # 0 THEN later
       ELSE IF metrics[i].key \in DOMAIN table
               /\ metrics[i].value > table[metrics[i].key] THEN i
       ELSE 0

\* for _, metric := range run.Run.Data.Metrics { if ... { ...; return } }
\* the index of the reading the loop stops at, 0 when it runs to the end
RECURSIVE FirstBreach(_, _, _)
FirstBreach(metrics, table, i) ==
  IF i > Len(metrics) THEN 0
  ELSE IF Exceeds(metrics[i], table) THEN i
  ELSE FirstBreach(metrics, table, i + 1)

\* fmt.Sprintf("... run %s: Metric %s = %.4f exceeded threshold %.4f",
\*             runID, metric.Key, metric.Value, threshold)
StopMsg(id, metric, table) ==
  [runID |-> id, key |-> metric.key, value |-> metric.value,
   threshold |-> table[metric.key]]

\* ---------------------------------------------------------- getRunDetails
\* err != nil on a transport error, a status other than 200, an unreadable
\* body or a body that does not parse; otherwise the parsed response
getRunDetails(resp) ==
  IF resp.kind = "transport" THEN [err |-> "transport", run |-> NoRun]
  ELSE IF resp.kind = "non200" THEN [err |-> "non200", run |-> NoRun]
  ELSE IF resp.kind = "unreadable" THEN [err |-> "unreadable", run |-> NoRun]
  ELSE IF resp.kind = "unparsable" THEN [err |-> "unparsable", run |-> NoRun]
  ELSE [err |-> "nil",
        run |-> [status |-> resp.status, metrics |-> resp.metrics]]

\* ----------------------------------------------- getActiveRunsInExperiment
ExperimentBody == "experiment_ids, attributes.status = 'RUNNING'"

\* the same four failures are returned as errors, else the parsed list
getActiveRunsInExperiment(resp) ==
  IF resp.kind = "ok" THEN [err |-> "nil", runs |-> resp.runs]
  ELSE [err |-> resp.kind, runs |-> <<>>]

\* -------------------------------------------------------- getAllActiveRuns
requestBodies ==
  << "attributes.status = 'RUNNING'", "status = 'RUNNING'",
     "run_view_type ACTIVE_ONLY" >>

\* (variant: a list is returned only when it has more than one run)
TryFormat_moreThanOne(resp) ==
  IF resp.kind # "ok" THEN "continue"
  ELSE IF Len(resp.runs) > 1 THEN "return"
  ELSE "continue"

\* one iteration of `for i, requestBody := range requestBodies`: each of the
\* four failures is a continue, a non-empty list is returned at once, an
\* empty one lets the loop go on
TryFormat(resp) ==
  IF resp.kind # "ok" THEN "continue"
  ELSE IF Len(resp.runs) > 0 THEN "return"
  ELSE "continue"

\* (variant: a failed request ends the search with its error)
getAllActiveRuns_failFast(i, resp) ==
  IF resp.kind # "ok"
    THEN [more |-> FALSE, err |-> resp.kind, runs |-> <<>>]
  ELSE IF Len(resp.runs) > 0
    THEN [more |-> FALSE, err |-> "nil", runs |-> resp.runs]
  ELSE IF i = Len(requestBodies)
    THEN [more |-> FALSE, err |-> "nil", runs |-> <<>>]
  ELSE [more |-> TRUE, err |-> "nil", runs |-> <<>>]

\* what getAllActiveRuns returns when iteration i has received resp: the
\* list of that response, or after the last formulation an empty list, both
\* with a nil error; "more" while the loop goes on
getAllActiveRuns(i, resp) ==
  IF TryFormat(resp) = "return"
    THEN [more |-> FALSE, err |-> "nil", runs |-> resp.runs]
  ELSE IF i = Len(requestBodies)
    THEN [more |-> FALSE, err |-> "nil", runs |-> <<>>]
  ELSE [more |-> TRUE, err |-> "nil", runs |-> <<>>]

\* ---------------------------------------------------------------- stopRun
\* (variant: the run is asked to be marked KILLED)
requestBody_killed(id) == [run_id |-> id, status |-> "KILLED"]

\* requestBody := fmt.Sprintf(`{"run_id": "%s", "status": "FAILED"}`, runID)
requestBody(id) == [run_id |-> id, status |-> "FAILED"]

\* err != nil on a transport error or a status other than 200
UpdateErr(resp) ==
  IF resp.kind = "transport" THEN "transport"
  ELSE IF resp.kind = "non200" THEN "non200"
  ELSE "nil"

\* ------------------------------------------------------------------- Init
FreshPass ==
  /\ runID = target
  /\ fetchErr = "nil"
  /\ run = NoRun
  /\ decision = "none"
  /\ msg = NoMsg
  /\ notifyCalls = 0
  /\ notifyErr = FALSE
  /\ stopCalls = 0
  /\ stopErr = "nil"

FreshScan ==
  /\ posted = <<>>
  /\ resps = <<>>
  /\ scanErr = "nil"
  /\ activeRuns = <<>>

\* SendNotification before it is entered
NotifierIdle ==
  /\ channels = <<>>
  /\ telegramErr = "nil"
  /\ slackErr = "nil"
  /\ sendErr = "none"
  /\ telegramCalls = 0
  /\ slackCalls = 0
  /\ telegramPosts = 0
  /\ slackPosts = 0

\* the notifier's configuration where only the returned error is followed
NotifierUnset ==
  /\ messageChannels = <<>>
  /\ telegramBotToken = ""
  /\ telegramChatID = ""
  /\ slackWebhookURL = ""

Init ==
  /\ mode \in Modes
  /\ target \in (IF mode = "run" THEN RunIDs ELSE {""})
  /\ thresholds \in Tables
  /\ status \in [RunIDs -> {"RUNNING", "FINISHED"}]
  /\ stopIssued = {}
  /\ pc = "poll"
  /\ FreshPass
  /\ FreshScan
  /\ waits = 0
  /\ text = <<>>
  /\ NotifierUnset
  /\ NotifierIdle

\* the pass over the snapshot of run id: on a breach the message is built
\* and SendNotification is next, otherwise control goes to `otherwise`
Evaluate(id, snapshot, otherwise) ==
  LET b == FirstBreach(snapshot.metrics, thresholds, 1) IN
  IF b # 0
    THEN /\ decision' = "stop"
         /\ msg' = StopMsg(id, snapshot.metrics[b], thresholds)
         /\ pc' = "notify"
    ELSE /\ decision' = "continue"
         /\ msg' = NoMsg
         /\ pc' = otherwise

\* ----------------------------------------------------- MonitorSpecificRun
\* (variant: a response that does not parse ends the watcher)
AfterFetchError_fatalParse(err) ==
  IF err = "unparsable" THEN "returned" ELSE "sleep"

\* (variant: the continue taken without the time.Sleep)
AfterFetchError_noSleep(err) == "poll"

\* if err != nil { log; time.Sleep(...); continue }, whatever the error is
AfterFetchError(err) == "sleep"

\* (variant: the status test left out, as checkRunMetrics has none)
NoLongerActive_unchecked(snapshot) == FALSE

\* if run.Run.Info.Status != "RUNNING" { log; return }
NoLongerActive(snapshot) == snapshot.status # "RUNNING"

\* one iteration up to the notification, the return or the sleep
MonitorSpecificRun ==
  /\ mode = "run" /\ pc = "poll"
  /\ \E resp \in GetResponses(status[target]) :
       LET r == getRunDetails(resp) IN
       /\ fetchErr' = r.err
       /\ run' = r.run
       /\ IF r.err # "nil"
            THEN /\ decision' = "error" /\ msg' = NoMsg
                 /\ pc' = AfterFetchError(r.err)
          ELSE IF NoLongerActive(r.run)
            THEN decision' = "ended" /\ msg' = NoMsg /\ pc' = "returned"
          ELSE Evaluate(target, r.run, "sleep")
  /\ runID' = target
  /\ notifyCalls' = 0 /\ notifyErr' = FALSE
  /\ stopCalls' = 0 /\ stopErr' = "nil"
  /\ waits' = 0
  /\ UNCHANGED <<config, service, scan, aside>>

\* ------------------------------------------------------ MonitorExperiment
\* (variant: a failed scan ends the loop)
Dispatch_errorEnds(r) ==
  /\ scanErr' = r.err
  /\ activeRuns' = r.runs
  /\ pc' = IF r.err # "nil" THEN "returned"
           ELSE IF Len(r.runs) = 0 THEN "sleep" ELSE "check"

\* (variant: an empty list is handed on as an error)
Dispatch_emptyIsError(r) ==
  /\ scanErr' = IF r.err # "nil" THEN r.err
                ELSE IF Len(r.runs) = 0 THEN "no active runs" ELSE "nil"
  /\ activeRuns' = r.runs
  /\ pc' = IF r.err # "nil" \/ Len(r.runs) = 0 THEN "sleep" ELSE "check"

\* what the loops do with the result of a scan: an error or an empty list
\* leads to the sleep, otherwise the range loop starts
Dispatch(r) ==
  /\ scanErr' = r.err
  /\ activeRuns' = r.runs
  /\ pc' = IF r.err # "nil" THEN "sleep"
           ELSE IF Len(r.runs) = 0 THEN "sleep"
           ELSE "check"

\* the runs a search with a status filter can return
Running == {r \in RunIDs : status[r] = "RUNNING"}

MonitorExperiment ==
  /\ mode = "experiment" /\ pc = "poll"
  /\ \E resp \in SearchResponses(Running) :
       /\ posted' = <<ExperimentBody>>
       /\ resps' = <<resp>>
       /\ Dispatch(getActiveRunsInExperiment(resp))
  /\ waits' = 0
  /\ UNCHANGED <<config, service, pass, aside>>

\* --------------------------------------------------- MonitorAllActiveRuns
\* the first two formulations filter on the status, the third one does not
FormulationResponses(i) ==
  IF i < 3 THEN SearchResponses(Running) ELSE SearchResponses(RunIDs)

\* one POST of getAllActiveRuns and, when it returns, the dispatch on its
\* result (the listing made in debug mode only writes to the log)
MonitorAllActiveRuns ==
  /\ mode = "all" /\ pc \in {"poll", "scan"}
  /\ LET i == Len(posted) + 1 IN
     \E resp \in FormulationResponses(i) :
       LET r == getAllActiveRuns(i, resp) IN
       /\ posted' = Append(posted, requestBodies[i])
       /\ resps' = Append(resps, resp)
       /\ IF r.more
            THEN pc' = "scan" /\ UNCHANGED <<scanErr, activeRuns>>
            ELSE Dispatch(r)
  /\ waits' = 0
  /\ UNCHANGED <<config, service, pass, aside>>

\* -------------------------------------------------------- checkRunMetrics
\* the call for the next element of activeRuns.Runs, up to the notification
\* or the return
checkRunMetrics ==
  /\ mode # "run" /\ pc = "check"
  /\ LET id == Head(activeRuns) IN
     /\ runID' = id
     /\ activeRuns' = Tail(activeRuns)
     /\ \E resp \in GetResponses(status[id]) :
          LET r == getRunDetails(resp) IN
          /\ fetchErr' = r.err
          /\ run' = r.run
          /\ IF r.err # "nil"
               THEN decision' = "error" /\ msg' = NoMsg /\ pc' = "return"
             ELSE Evaluate(id, r.run, "return")
  /\ notifyCalls' = 0 /\ notifyErr' = FALSE
  /\ stopCalls' = 0 /\ stopErr' = "nil"
  /\ posted' = <<>> /\ resps' = <<>>
  /\ UNCHANGED <<config, service, scanErr, waits, aside>>

\* (variant: the range loop is left after its first element)
AfterCheck_break(rest) == "sleep"

\* where control goes when checkRunMetrics returns: the next element of the
\* range loop, or the time.Sleep that follows the loop
AfterCheck(rest) == IF Len(rest) > 0 THEN "check" ELSE "sleep"

\* the return of checkRunMetrics to the range loop; its locals are gone
Return ==
  /\ mode # "run" /\ pc = "return"
  /\ pc' = AfterCheck(activeRuns)
  /\ runID' = target /\ fetchErr' = "nil" /\ run' = NoRun
  /\ decision' = "none" /\ msg' = NoMsg
  /\ notifyCalls' = 0 /\ notifyErr' = FALSE
  /\ stopCalls' = 0 /\ stopErr' = "nil"
  /\ UNCHANGED <<config, service, scan, waits, aside>>

\* ------------------------------------------------------- SendNotification
\* (variant: the run is stopped only when the notification went out)
AfterNotify_stopOnSuccess(err) ==
  IF ~err THEN "stop" ELSE IF mode = "run" THEN "returned" ELSE "return"

\* where control goes when SendNotification has returned err: a non-nil err
\* is logged and stopRun follows in either case
AfterNotify(err) == "stop"

\* err := messaging.SendNotification(msg, config)
SendNotification ==
  /\ pc = "notify"
  /\ \E err \in BOOLEAN :
       /\ notifyErr' = err
       /\ pc' = AfterNotify(err)
  /\ notifyCalls' = notifyCalls + 1
  /\ UNCHANGED <<config, service, runID, fetchErr, run, decision, msg,
                 stopCalls, stopErr, scan, waits, aside>>

\* ---------------------------------------------------------------- stopRun
\* (variant: the return after stopRun is missing, the loop body runs on
\* to its time.Sleep)
AfterStop_noReturn(err) == IF mode = "run" THEN "sleep" ELSE "return"

\* (variant: a failed stop lets the single-run loop go on polling)
AfterStop_keepPolling(err) ==
  IF mode # "run" THEN "return"
  ELSE IF err # "nil" THEN "sleep" ELSE "returned"

\* where control goes when stopRun has returned err: a non-nil err is
\* logged and both callers return
AfterStop(err) == IF mode = "run" THEN "returned" ELSE "return"

\* if err := stopRun(runID, config, debug); the service sets the status of
\* the run to FAILED when it answers 200
stopRun ==
  /\ pc = "stop"
  /\ \E resp \in UpdateResponses :
       /\ stopErr' = UpdateErr(resp)
       /\ status' = IF resp.kind = "ok"
                      THEN [status EXCEPT ![requestBody(runID).run_id] =
                                            requestBody(runID).status]
                      ELSE status
       /\ pc' = AfterStop(UpdateErr(resp))
  /\ stopCalls' = stopCalls + 1
  /\ stopIssued' = stopIssued \cup {requestBody(runID).run_id}
  /\ UNCHANGED <<config, runID, fetchErr, run, decision, msg, notifyCalls,
                 notifyErr, scan, waits, aside>>

\* ------------------------------------------------------------------ Sleep
\* config.PollInterval, in seconds (the default that loadConfig sets)
PollInterval == 30

\* time.Duration(config.PollInterval) * time.Second, in seconds
SleepSeconds == PollInterval

\* time.Sleep(time.Duration(config.PollInterval) * time.Second), after which
\* the loop starts its next iteration with fresh locals
Sleep ==
  /\ pc = "sleep"
  /\ pc' = "poll"
  /\ waits' = waits + SleepSeconds
  /\ runID' = target /\ fetchErr' = "nil" /\ run' = NoRun
  /\ decision' = "none" /\ msg' = NoMsg
  /\ notifyCalls' = 0 /\ notifyErr' = FALSE
  /\ stopCalls' = 0 /\ stopErr' = "nil"
  /\ posted' = <<>> /\ resps' = <<>> /\ scanErr' = "nil"
  /\ activeRuns' = <<>>
  /\ UNCHANGED <<config, service, aside>>

\* ---------------------------------------------------------------- RunEnds
\* the training job ends on its own
RunEnds ==
  /\ \E r \in RunIDs :
       /\ status[r] = "RUNNING"
       /\ status' = [status EXCEPT ![r] = "FINISHED"]
  /\ UNCHANGED <<config, stopIssued, pc, pass, scan, waits, aside>>

Next ==
  \/ MonitorSpecificRun
  \/ MonitorExperiment
  \/ MonitorAllActiveRuns
  \/ checkRunMetrics
  \/ Return
  \/ SendNotification
  \/ stopRun
  \/ Sleep
  \/ RunEnds

Spec == Init /\ [][Next]_vars

\* ------------------------------------------- messaging.SendNotification ---
\* A string is the sequence of its characters.
LowerLetters ==
  <<"a", "b", "c", "d", "e", "f", "g", "h", "i", "j", "k", "l", "m",
    "n", "o", "p", "q", "r", "s", "t", "u", "v", "w", "x", "y", "z">>

UpperLetters ==
  <<"A", "B", "C", "D", "E", "F", "G", "H", "I", "J", "K", "L", "M",
    "N", "O", "P", "Q", "R", "S", "T", "U", "V", "W", "X", "Y", "Z">>

\* unicode.ToUpper on the characters in use
ToUpperRune(c) ==
  IF \E i \in DOMAIN LowerLetters : LowerLetters[i] = c
    THEN UpperLetters[CHOOSE i \in DOMAIN LowerLetters : LowerLetters[i] = c]
    ELSE c

\* (variant: the selection compared as written)
ToUpper_asWritten(s) == s

\* strings.ToUpper
ToUpper(s) == [i \in 1..Len(s) |-> ToUpperRune(s[i])]

ChannelTelegram == <<"T", "E", "L", "E", "G", "R", "A", "M">>
ChannelSlack == <<"S", "L", "A", "C", "K">>
ChannelBoth == <<"B", "O", "T", "H">>

\* the lower-case letter of an upper-case one
LowerOf(c) ==
  LowerLetters[CHOOSE i \in DOMAIN UpperLetters : UpperLetters[i] = c]

\* the ways of writing an upper-case word in upper and lower case
Spellings(word) ==
  {[i \in 1..Len(word) |-> IF i \in S THEN LowerOf(word[i]) ELSE word[i]] :
     S \in SUBSET (1..Len(word))}

\* values of MESSAGE_CHANNELS: the three channel names in any case, the
\* empty string, and a word that names no channel
MessageChannelsValues ==
  Spellings(ChannelTelegram) \cup Spellings(ChannelSlack)
    \cup Spellings(ChannelBoth) \cup Spellings(<<"A", "L", "L">>)
    \cup {<<>>}

\* what a remote service does with a request: the transport fails, or it
\* answers with a status other than 200, or with 200
Answers == {"transport", "status", "ok"}

\* telegram.SendTelegramNotification, given what the Telegram API does
\* with the request: the token goes into the URL and the chat ID into the
\* form, neither is examined
SendTelegramNotification(token, chatID, answer) ==
  [posts |-> 1,
   err |-> IF answer = "transport" THEN "telegram: failed to send"
           ELSE IF answer = "status" THEN "telegram: status code"
           ELSE "nil"]

\* slack.SendSlackNotification, given what the webhook does with the
\* request (json.Marshal of a struct holding one string does not fail)
SendSlackNotification(webhookURL, answer) ==
  IF webhookURL = ""
    THEN [posts |-> 0, err |-> "slack: webhook URL is not configured"]
    ELSE [posts |-> 1,
          err |-> IF answer = "transport" THEN "slack: failed to send"
                  ELSE IF answer = "status" THEN "slack: status code"
                  ELSE "nil"]

\* channels := strings.ToUpper(config.MessageChannels), TELEGRAM if empty
Normalized(selection) ==
  LET upper == ToUpper(selection) IN
  IF upper = <<>> THEN ChannelTelegram ELSE upper

\* (variant: telegram is attempted whatever the selection)
WantsTelegram_always(c) == TRUE

\* channels == ChannelTelegram || channels == ChannelBoth
WantsTelegram(c) == c = ChannelTelegram \/ c = ChannelBoth

\* (variant: with both selected slack is the fallback of a failed telegram)
WantsSlack_asFallback(c) ==
  c = ChannelSlack \/ (c = ChannelBoth /\ telegramErr # "nil")

\* channels == ChannelSlack || channels == ChannelBoth
WantsSlack(c) == c = ChannelSlack \/ c = ChannelBoth

\* (variant: a selection that names no channel is an error)
Outcome_unknownIsError(c, tErr, sErr) ==
  IF c = ChannelBoth
    THEN IF tErr # "nil" /\ sErr # "nil" THEN tErr ELSE "nil"
    ELSE IF c = ChannelTelegram THEN tErr
    ELSE IF c = ChannelSlack THEN sErr
    ELSE "unknown channel"

\* (variant: with both channels selected every send has to succeed)
Outcome_allMustSucceed(c, tErr, sErr) ==
  IF c = ChannelBoth
    THEN IF tErr # "nil" THEN tErr ELSE sErr
    ELSE IF c = ChannelTelegram THEN tErr
    ELSE IF c = ChannelSlack THEN sErr
    ELSE "nil"

\* the value SendNotification returns
Outcome(c, tErr, sErr) ==
  IF c = ChannelBoth
    THEN IF tErr # "nil" /\ sErr # "nil" THEN tErr ELSE "nil"
    ELSE IF c = ChannelTelegram THEN tErr
    ELSE IF c = ChannelSlack THEN sErr
    ELSE "nil"

\* the watch loop as SendNotification finds it: a breach of run r1 was
\* detected and the notification is due
LoopAtNotify ==
  /\ mode = "run" /\ target = "r1" /\ thresholds = FullTable
  /\ status = [r \in RunIDs |-> "RUNNING"]
  /\ stopIssued = {}
  /\ runID = target
  /\ fetchErr = "nil"
  /\ run = [status |-> "RUNNING",
            metrics |-> <<[key |-> "loss", value |-> 2]>>]
  /\ decision = "stop"
  /\ msg = StopMsg(target, run.metrics[1], thresholds)
  /\ notifyCalls = 0 /\ notifyErr = FALSE
  /\ stopCalls = 0 /\ stopErr = "nil"
  /\ FreshScan
  /\ waits = 0
  /\ text = <<>>

loop == <<config, service, pass, scan, waits, text>>

\* SendNotification is entered with some configuration
InitNotify ==
  /\ LoopAtNotify
  /\ pc = "send"
  /\ messageChannels \in MessageChannelsValues
  /\ telegramBotToken \in {"", "token"}
  /\ telegramChatID \in {"", "chat"}
  /\ slackWebhookURL \in {"", "https://hooks"}
  /\ NotifierIdle

settings == <<messageChannels, telegramBotToken, telegramChatID,
              slackWebhookURL>>

\* lines 49-54
Normalize ==
  /\ pc = "send"
  /\ channels' = Normalized(messageChannels)
  /\ pc' = "telegram"
  /\ UNCHANGED <<loop, settings, telegramErr, slackErr, sendErr,
                 telegramCalls, slackCalls, telegramPosts, slackPosts>>

\* lines 56-58
TelegramBranch ==
  /\ pc = "telegram"
  /\ pc' = "slack"
  /\ IF WantsTelegram(channels)
       THEN \E answer \in Answers :
              LET r == SendTelegramNotification(telegramBotToken,
                                                telegramChatID, answer) IN
              /\ telegramErr' = r.err
              /\ telegramCalls' = telegramCalls + 1
              /\ telegramPosts' = telegramPosts + r.posts
       ELSE UNCHANGED <<telegramErr, telegramCalls, telegramPosts>>
  /\ UNCHANGED <<loop, settings, channels, slackErr, sendErr, slackCalls,
                 slackPosts>>

\* lines 60-62
SlackBranch ==
  /\ pc = "slack"
  /\ pc' = "result"
  /\ IF WantsSlack(channels)
       THEN \E answer \in Answers :
              LET r == SendSlackNotification(slackWebhookURL, answer) IN
              /\ slackErr' = r.err
              /\ slackCalls' = slackCalls + 1
              /\ slackPosts' = slackPosts + r.posts
       ELSE UNCHANGED <<slackErr, slackCalls, slackPosts>>
  /\ UNCHANGED <<loop, settings, channels, telegramErr, sendErr,
                 telegramCalls, telegramPosts>>

\* lines 64-75
Result ==
  /\ pc = "result"
  /\ pc' = "sent"
  /\ sendErr' = Outcome(channels, telegramErr, slackErr)
  /\ UNCHANGED <<loop, settings, channels, telegramErr, slackErr,
                 telegramCalls, slackCalls, telegramPosts, slackPosts>>

\* the caller receives err of SendNotification, logs a non-nil one and
\* goes on to stopRun
SendNotificationReturns ==
  /\ pc = "sent"
  /\ notifyErr' = (sendErr # "nil")
  /\ notifyCalls' = notifyCalls + 1
  /\ pc' = AfterNotify(notifyErr')
  /\ UNCHANGED <<config, service, runID, fetchErr, run, decision, msg,
                 stopCalls, stopErr, scan, waits, aside>>

NextNotify ==
  \/ Normalize
  \/ TelegramBranch
  \/ SlackBranch
  \/ Result
  \/ SendNotificationReturns
  \/ stopRun

SpecNotify == InitNotify /\ [][NextNotify]_vars

\* ------------------------------------------- the evaluation of a snapshot
\* Here a metric value and a bound are counted in hundred-thousandths, so
\* that they have a fifth decimal for %.4f to round away; they are not
\* negative, and none has a fifth decimal of 5.
Unit == 100000

\* values a reading can have: 0.3, 0.7, 0.9, 0.99996 and 1.23457
Readouts == {30000, 70000, 90000, 99996, 123457}

\* Metric.Step
Steps == {1, 2}

\* types.Metric with the step it was logged at
Reading == [key : Keys, value : Readouts, step : Steps]

\* thresholds {loss: 0.5, accuracy: 0.95} and the restrictions of it
ReadoutTable == [k \in Keys |-> IF k = "loss" THEN 50000 ELSE 95000]
ReadoutTables == {[k \in S |-> ReadoutTable[k]] : S \in SUBSET Keys}

DigitChars == <<"0", "1", "2", "3", "4", "5", "6", "7", "8", "9">>

\* the decimal digits of a natural number, most significant first
RECURSIVE Digits(_)
Digits(n) ==
  IF n < 10 THEN <<DigitChars[n + 1]>>
  ELSE Append(Digits(n \div 10), DigitChars[(n % 10) + 1])

\* (variant: the digits after the fourth are cut off)
Fmt4_truncated(v) ==
  LET r == v \div (Unit \div 10000)
      f == r % 10000 IN
  Digits(r \div 10000) \o <<".">> \o
    <<DigitChars[(f \div 1000) + 1], DigitChars[((f \div 100) % 10) + 1],
      DigitChars[((f \div 10) % 10) + 1], DigitChars[(f % 10) + 1]>>

\* the verb %.4f: the value rounded to the nearest ten-thousandth, written
\* with its integer digits, a point and four decimals
Fmt4(v) ==
  LET r == (v + (Unit \div 20000)) \div (Unit \div 10000)
      f == r % 10000 IN
  Digits(r \div 10000) \o <<".">> \o
    <<DigitChars[(f \div 1000) + 1], DigitChars[((f \div 100) % 10) + 1],
      DigitChars[((f \div 10) % 10) + 1], DigitChars[(f % 10) + 1]>>

\* fmt.Sprintf("... Stopping run %s: Metric %s = %.4f exceeded threshold
\* %.4f", runID, metric.Key, metric.Value, threshold): the pieces of the
\* format and the four rendered arguments, in order
Sprintf(m) ==
  <<"Stopping run ", m.runID, ": Metric ", m.key, " = ", Fmt4(m.value),
    " exceeded threshold ", Fmt4(m.threshold)>>

\* a snapshot of a running run has been fetched and is to be evaluated
InitEval ==
  /\ mode = "run"
  /\ target \in RunIDs
  /\ thresholds \in ReadoutTables
  /\ status = [r \in RunIDs |-> "RUNNING"]
  /\ stopIssued = {}
  /\ pc = "eval"
  /\ runID = target
  /\ fetchErr = "nil"
  /\ run \in [status : {"RUNNING"}, metrics : SeqUpTo(Reading, MaxMetrics)]
  /\ decision = "none"
  /\ msg = NoMsg
  /\ notifyCalls = 0 /\ notifyErr = FALSE
  /\ stopCalls = 0 /\ stopErr = "nil"
  /\ FreshScan
  /\ waits = 0
  /\ text = <<>>
  /\ NotifierUnset
  /\ NotifierIdle

\* the range loop over run.Run.Data.Metrics with the message it builds
EvaluateSnapshot ==
  /\ pc = "eval"
  /\ Evaluate(runID, run, "sleep")
  /\ text' = IF decision' = "stop" THEN Sprintf(msg') ELSE <<>>
  /\ UNCHANGED <<config, service, runID, fetchErr, run, notifyCalls,
                 notifyErr, stopCalls, stopErr, scan, waits, notifier>>

NextEval == EvaluateSnapshot

SpecEval == InitEval /\ [][NextEval]_vars

\* ------------------------------------------------- a signal to the process
\* main installs no signal handler and the loops wait in time.Sleep, so
\* SIGINT or SIGTERM ends the process at once wherever it is: in the
\* sleep, or between the request and the response of an HTTP exchange.
\* To have the latter for the terminate command, stopRun is taken here in
\* its two halves.

\* stopRun up to http.Post having sent the request
stopRunPost ==
  /\ pc = "stop"
  /\ pc' = "stopping"
  /\ stopCalls' = stopCalls + 1
  /\ stopErr' = "pending"
  /\ stopIssued' = stopIssued \cup {requestBody(runID).run_id}
  /\ UNCHANGED <<config, status, runID, fetchErr, run, decision, msg,
                 notifyCalls, notifyErr, scan, waits, aside>>

\* stopRun from the response of http.Post to its return
stopRunReply ==
  /\ pc = "stopping"
  /\ \E resp \in UpdateResponses :
       /\ stopErr' = UpdateErr(resp)
       /\ status' = IF resp.kind = "ok"
                      THEN [status EXCEPT ![requestBody(runID).run_id] =
                                            requestBody(runID).status]
                      ELSE status
       /\ pc' = AfterStop(UpdateErr(resp))
  /\ UNCHANGED <<config, stopIssued, runID, fetchErr, run, decision, msg,
                 notifyCalls, notifyErr, stopCalls, scan, waits, aside>>

\* the signal arrives and the runtime ends the process
Signal ==
  /\ pc \notin {"returned", "killed"}
  /\ pc' = "killed"
  /\ UNCHANGED <<config, service, pass, scan, waits, aside>>

NextSignal ==
  \/ MonitorSpecificRun
  \/ MonitorExperiment
  \/ MonitorAllActiveRuns
  \/ checkRunMetrics
  \/ Return
  \/ SendNotification
  \/ stopRunPost
  \/ stopRunReply
  \/ Sleep
  \/ RunEnds
  \/ Signal

SpecSignal == Init /\ [][NextSignal]_vars

\* ------------------------------------------------------------- progress
\* The watcher is one sequential goroutine: whenever it can take its next
\* step it takes it, every HTTP exchange ends (in a response or in an
\* error) and every time.Sleep ends. Nothing is assumed about what the
\* services answer.
\* the program started with a run ID
InitRun == Init /\ mode = "run"

NextRun ==
  \/ MonitorSpecificRun
  \/ SendNotification
  \/ stopRun
  \/ Sleep
  \/ RunEnds

ProgressRun ==
  /\ WF_vars(MonitorSpecificRun)
  /\ WF_vars(SendNotification)
  /\ WF_vars(stopRun)
  /\ WF_vars(Sleep)

LiveSpecRun == InitRun /\ [][NextRun]_vars /\ ProgressRun

\* the program started with an experiment ID or with neither ID
InitFleet == Init /\ mode # "run"

NextFleet ==
  \/ MonitorExperiment
  \/ MonitorAllActiveRuns
  \/ checkRunMetrics
  \/ Return
  \/ SendNotification
  \/ stopRun
  \/ Sleep
  \/ RunEnds

ProgressFleet ==
  /\ WF_vars(MonitorExperiment)
  /\ WF_vars(MonitorAllActiveRuns)
  /\ WF_vars(checkRunMetrics)
  /\ WF_vars(Return)
  /\ WF_vars(SendNotification)
  /\ WF_vars(stopRun)
  /\ WF_vars(Sleep)

LiveSpecFleet == InitFleet /\ [][NextFleet]_vars /\ ProgressFleet

\* ------------------------------------------- the legacy program (package main)
\* The loops of src/app/main.go, as a step function on what a watcher is
\* about to do: v.pc is its position, v.runID the run of the pass in hand,
\* v.rest the runs of the scan not yet visited, v.sent the formulations
\* of the global search already posted, v.slept the seconds slept since
\* the last poll began. got is what getRunDetails returned, found what
\* the tracking service answered to a search.

\* requestBodies of the legacy getAllActiveRuns
legacy_requestBodies ==
  << "attributes.status = 'RUNNING'", "status = 'RUNNING'",
     "run_view_type ACTIVE_ONLY" >>

\* requestBody of the legacy stopRun
legacy_requestBody(id) == [run_id |-> id, status |-> "FAILED"]

\* exists && metric.Value > threshold, for some metric of the snapshot
legacy_exceeded(snapshot) ==
  \E i \in 1..Len(snapshot.metrics) :
    /\ snapshot.metrics[i].key \in DOMAIN thresholds
    /\ snapshot.metrics[i].value > thresholds[snapshot.metrics[i].key]

\* monitorSpecificRun, from getRunDetails to the notification, the return
\* or the sleep
legacy_monitorSpecificRun(v, got) ==
  [pc |-> IF got.err # "nil" THEN "sleep"
          ELSE IF got.run.status # "RUNNING" THEN "returned"
          ELSE IF legacy_exceeded(got.run) THEN "notify"
          ELSE "sleep",
   runID |-> IF got.err = "nil" /\ got.run.status = "RUNNING"
                  /\ legacy_exceeded(got.run) THEN target ELSE "",
   rest |-> <<>>, sent |-> 0, slept |-> 0]

\* monitorExperiment, from getActiveRunsInExperiment to the range loop or
\* the sleep
legacy_monitorExperiment(v, found) ==
  IF found.kind # "ok" \/ Len(found.runs) = 0
    THEN [pc |-> "sleep", runID |-> "", rest |-> <<>>, sent |-> 0,
          slept |-> 0]
    ELSE [pc |-> "check", runID |-> "", rest |-> found.runs, sent |-> 0,
          slept |-> 0]

\* monitorAllActiveRuns: one formulation of getAllActiveRuns and, when
\* that function returns, the range loop or the sleep
legacy_monitorAllActiveRuns(v, found) ==
  IF found.kind = "ok" /\ Len(found.runs) > 0
    THEN [pc |-> "check", runID |-> "", rest |-> found.runs, sent |-> 0,
          slept |-> 0]
  ELSE IF v.sent + 1 < Len(legacy_requestBodies)
    THEN [pc |-> "scan", runID |-> "", rest |-> <<>>, sent |-> v.sent + 1,
          slept |-> 0]
  ELSE [pc |-> "sleep", runID |-> "", rest |-> <<>>, sent |-> 0,
        slept |-> 0]

\* (variant: a snapshot of a run that is no longer running is skipped)
legacy_checkRunMetrics_skipsEnded(v, got) ==
  [pc |-> IF got.err # "nil" THEN "return"
          ELSE IF got.run.status # "RUNNING" THEN "return"
          ELSE IF legacy_exceeded(got.run) THEN "notify"
          ELSE "return",
   runID |-> IF got.err = "nil" /\ got.run.status = "RUNNING"
                  /\ legacy_exceeded(got.run)
               THEN Head(v.rest) ELSE "",
   rest |-> Tail(v.rest), sent |-> 0, slept |-> v.slept]

\* checkRunMetrics for the next run of the range loop, up to the
\* notification or the return
legacy_checkRunMetrics(v, got) ==
  [pc |-> IF got.err # "nil" THEN "return"
          ELSE IF legacy_exceeded(got.run) THEN "notify"
          ELSE "return",
   runID |-> IF got.err = "nil" /\ legacy_exceeded(got.run)
               THEN Head(v.rest) ELSE "",
   rest |-> Tail(v.rest), sent |-> 0, slept |-> v.slept]

\* sendTelegramNotification returns; its error is logged and stopRun is
\* next
legacy_sendTelegramNotification(v) == [v EXCEPT !.pc = "stop"]

\* stopRun returns; its error is logged and the function returns
legacy_stopRun(v) ==
  [v EXCEPT !.pc = IF mode = "run" THEN "returned" ELSE "return",
            !.runID = ""]

\* checkRunMetrics has returned: the next element of the range loop, or
\* the sleep after the loop
legacy_range(v) ==
  [v EXCEPT !.pc = IF Len(v.rest) > 0 THEN "check" ELSE "sleep"]

\* time.Sleep(time.Duration(config.PollInterval) * time.Second)
legacy_sleep(v) ==
  [pc |-> "poll", runID |-> "", rest |-> <<>>, sent |-> 0,
   slept |-> v.slept + PollInterval]

\* the step of the legacy program at v: main has started the loop that
\* the given IDs select
legacy_step(v, got, found) ==
  IF v.pc = "poll" /\ mode = "run" THEN legacy_monitorSpecificRun(v, got)
  ELSE IF v.pc = "poll" /\ mode = "experiment"
    THEN legacy_monitorExperiment(v, found)
  ELSE IF v.pc \in {"poll", "scan"}
    THEN legacy_monitorAllActiveRuns(v, found)
  ELSE IF v.pc = "check" THEN legacy_checkRunMetrics(v, got)
  ELSE IF v.pc = "notify" THEN legacy_sendTelegramNotification(v)
  ELSE IF v.pc = "stop" THEN legacy_stopRun(v)
  ELSE IF v.pc = "return" THEN legacy_range(v)
  ELSE IF v.pc = "sleep" THEN legacy_sleep(v)
  ELSE v

\* =================================================================== claims
\* reading i of the snapshot has a key of the table and a value strictly
\* above that key's bound
Breaching(snapshot, i) ==
  /\ snapshot.metrics[i].key \in DOMAIN thresholds
  /\ thresholds[snapshot.metrics[i].key] < snapshot.metrics[i].value

\* a pass has fetched a snapshot of a run that reports itself RUNNING
RunningSnapshot == fetchErr = "nil" /\ run.status = "RUNNING"

\* a pass has fetched a snapshot of a run that reports another status
EndedSnapshot ==
  fetchErr = "nil" /\ decision # "none" /\ run.status # "RUNNING"

\* the pass is over: MonitorSpecificRun or checkRunMetrics is returning
PassOver == pc \in {"return", "returned"}

\* C1: when the snapshot of a running run breaches a threshold, in
\* MonitorSpecificRun and in checkRunMetrics alike, SendNotification is
\* called exactly once and then stopRun exactly once for that run: stopRun
\* is not called before SendNotification has returned, and it is called
\* whether SendNotification returned nil or an error.
C1_NotifyOnceThenStopOnce ==
  (RunningSnapshot /\ decision = "stop") =>
    /\ pc \in {"notify", "stop", "return", "returned"}
    /\ pc = "notify" => notifyCalls = 0 /\ stopCalls = 0
    /\ pc = "stop" => notifyCalls = 1 /\ stopCalls = 0
    /\ PassOver => /\ notifyCalls = 1 /\ stopCalls = 1
                   /\ msg.runID = runID /\ runID \in stopIssued

\* a breach whose notification failed and whose run was stopped all the same
C1_Witness ==
  /\ RunningSnapshot /\ decision = "stop" /\ PassOver
  /\ notifyErr /\ notifyCalls = 1 /\ stopCalls = 1

\* C2: in experiment and global mode, no notification and no terminate
\* command is issued for a run whose freshly fetched snapshot has a status
\* other than RUNNING, whatever its metrics are.
C2_NoActionOnEndedRun ==
  (mode # "run" /\ EndedSnapshot) => notifyCalls = 0 /\ stopCalls = 0

\* C3: in single-run mode a successful fetch with a status other than
\* RUNNING ends the monitoring at once: nothing is evaluated, notified or
\* stopped, even when the metrics exceed their thresholds.
C3_EndedRunEndsMonitoring ==
  (mode = "run" /\ EndedSnapshot) =>
    /\ pc = "returned" /\ decision = "ended" /\ msg = NoMsg
    /\ notifyCalls = 0 /\ stopCalls = 0 /\ target \notin stopIssued

\* a finished run whose snapshot holds a breaching reading
C3_Witness ==
  /\ mode = "run" /\ pc = "returned" /\ fetchErr = "nil"
  /\ run.status = "FINISHED"
  /\ \E i \in 1..Len(run.metrics) : Breaching(run, i)

\* C4: when readings of a running run's snapshot breach, the reading named
\* in the stop message is the first one, in the delivered order, whose
\* value strictly exceeds its threshold, and one stop is produced.
C4_FirstBreachReported ==
  (RunningSnapshot /\ decision = "stop") =>
    /\ \E i \in 1..Len(run.metrics) :
         /\ Breaching(run, i)
         /\ \A j \in 1..(i - 1) : ~Breaching(run, j)
         /\ msg.key = run.metrics[i].key
         /\ msg.value = run.metrics[i].value
         /\ msg.threshold = thresholds[run.metrics[i].key]
    /\ notifyCalls <= 1 /\ stopCalls <= 1

\* two readings breach, they differ, and the run has been stopped
C4_Witness ==
  /\ RunningSnapshot /\ decision = "stop" /\ PassOver /\ stopCalls = 1
  /\ \E i, j \in 1..Len(run.metrics) :
       /\ i < j /\ Breaching(run, i) /\ Breaching(run, j)
       /\ run.metrics[i] # run.metrics[j]

\* C5: the pass over a running run's snapshot decides stop exactly when
\* some reading has a key of the table and a value strictly greater than
\* that key's bound; otherwise it decides continue, and then nothing is
\* notified or stopped.
C5_StopIffStrictlyAbove ==
  RunningSnapshot =>
    /\ decision \in {"continue", "stop"}
    /\ decision = "stop" <=> \E i \in 1..Len(run.metrics) : Breaching(run, i)
    /\ decision = "continue" =>
         /\ pc \in {"sleep", "return"} /\ msg = NoMsg
         /\ notifyCalls = 0 /\ stopCalls = 0

\* a reading equal to its bound and a reading absent from the table, and
\* the decision is continue
C5_Witness ==
  /\ RunningSnapshot /\ decision = "continue"
  /\ \E i, j \in 1..Len(run.metrics) :
       /\ run.metrics[i].key \in DOMAIN thresholds
       /\ run.metrics[i].value = thresholds[run.metrics[i].key]
       /\ run.metrics[j].key \notin DOMAIN thresholds
       /\ run.metrics[j].value > FullTable[run.metrics[j].key]

\* C6: in experiment and global mode, once a terminate command has been
\* issued for a run, no further notification and no further terminate
\* command is issued for that run.
C6_NoActionAfterStop ==
  [][mode # "run" =>
       \A r \in stopIssued :
         /\ ~(msg.runID = r /\ notifyCalls' = notifyCalls + 1)
         /\ ~(runID = r /\ stopCalls' = stopCalls + 1)]_vars

\* C7: in single-run mode a terminate command that fails after a breach
\* still ends the monitoring, and the notification and the terminate
\* command have each been attempted exactly once.
C7_FailedStopEndsMonitoring ==
  (mode = "run" /\ stopErr # "nil") =>
    pc = "returned" /\ notifyCalls = 1 /\ stopCalls = 1

\* the notification went out, the stop failed, the watcher has returned
C7_Witness ==
  /\ mode = "run" /\ pc = "returned" /\ decision = "stop"
  /\ stopErr = "non200" /\ ~notifyErr

\* C8: in single-run mode a failed fetch (transport, status, body or parse)
\* never ends the watcher and never notifies or stops: the watcher sleeps,
\* and its next step is a new iteration with fresh locals.
C8_FetchErrorRetries ==
  /\ [](mode = "run" /\ fetchErr # "nil" =>
          /\ pc = "sleep" /\ decision = "error"
          /\ notifyCalls = 0 /\ stopCalls = 0 /\ stopIssued = {})
  /\ [][mode = "run" /\ fetchErr # "nil" =>
          \/ UNCHANGED <<pc, fetchErr, decision, notifyCalls, stopCalls>>
          \/ /\ pc' = "poll" /\ fetchErr' = "nil" /\ decision' = "none"
             /\ notifyCalls' = 0 /\ stopCalls' = 0]_vars

\* the response to the fetch of a running run did not parse, and the
\* watcher is in its sleep
C8_Witness ==
  /\ mode = "run" /\ pc = "sleep" /\ fetchErr = "unparsable"
  /\ status[target] = "RUNNING"

\* C9: an error of a scan's request is surfaced to the caller as an error:
\* a failed experiment search returns one, and so does a global scan whose
\* formulations all failed.
C9_ScanErrorSurfaced ==
  (pc \in {"sleep", "check"} /\ resps # <<>>
   /\ \A i \in 1..Len(resps) : resps[i].kind # "ok")
    => scanErr # "nil"

\* C10: a global scan queries the formulations in their fixed order and
\* returns the list of the first one that answers with a non-empty list;
\* no formulation is queried after it and no lists are merged.
C10_FirstNonEmptyWins ==
  (mode = "all" /\ resps # <<>>) =>
    LET hits == {i \in 1..Len(resps) :
                   resps[i].kind = "ok" /\ Len(resps[i].runs) > 0} IN
    /\ Len(posted) = Len(resps)
    /\ posted = SubSeq(requestBodies, 1, Len(posted))
    /\ pc = "scan" => hits = {} /\ Len(resps) < Len(requestBodies)
    /\ pc # "scan" =>
         /\ hits \subseteq {Len(resps)}
         /\ hits = {} => Len(resps) = Len(requestBodies)
         /\ hits # {} => activeRuns = resps[Len(resps)].runs /\ pc = "check"

\* formulation 1 answered with no run, formulation 2 with one run, and
\* that run is what the scan returned
C10_Witness ==
  /\ mode = "all" /\ pc = "check" /\ Len(resps) = 2
  /\ resps[1].kind = "ok" /\ resps[1].runs = <<>>
  /\ resps[2].kind = "ok" /\ Len(resps[2].runs) = 1
  /\ activeRuns = resps[2].runs

\* the scan just made returned: every query it sent was answered with a
\* well-formed response that lists no run
EmptyScan ==
  /\ mode # "run" /\ resps # <<>> /\ pc # "scan"
  /\ mode = "all" => Len(resps) = Len(requestBodies)
  /\ \A i \in 1..Len(resps) : resps[i].kind = "ok" /\ resps[i].runs = <<>>

\* C11: a scan that finds no run (the experiment query answered empty, or
\* every formulation of the global search answered empty) returns no error
\* and no run; in that cycle no run is fetched, nothing is notified and no
\* terminate is issued, and the only thing the scanner then does is sleep
\* one poll interval and start the next scan
C11_EmptyScanWaits ==
  /\ [](EmptyScan =>
          /\ scanErr = "nil" /\ activeRuns = <<>> /\ pc = "sleep"
          /\ runID = "" /\ fetchErr = "nil" /\ decision = "none"
          /\ notifyCalls = 0 /\ stopCalls = 0)
  /\ [][EmptyScan =>
          /\ stopIssued' = stopIssued
          /\ \/ UNCHANGED <<pc, pass, scan, waits>>
             \/ /\ pc' = "poll" /\ waits' = PollInterval
                /\ runID' = "" /\ decision' = "none"
                /\ notifyCalls' = 0 /\ stopCalls' = 0]_vars

\* the global search has tried its three formulations, each was answered
\* with an empty list, and the scanner is in its sleep
C11_Witness ==
  /\ mode = "all" /\ EmptyScan /\ Len(resps) = 3 /\ pc = "sleep"

\* C19: in a cycle of the experiment or global scanner the runs the
\* search returned are visited one after the other, each once, in the
\* order returned: the range loop starts with the list as returned, each
\* visit takes the head of what remains, nothing a visit does (a failed
\* fetch, a breach, a failed notification, a failed terminate) changes
\* what remains, every visit ends in the return of checkRunMetrics, the
\* next run is visited whenever one remains, and the sleep is reached only
\* when none remains
C19_EveryRunVisitedInOrder ==
  [][mode # "run" =>
       /\ (pc \in {"poll", "scan"} /\ pc' = "check") =>
            activeRuns' = resps'[Len(resps')].runs
       /\ (pc = "check" /\ pc' # "check") =>
            /\ activeRuns # <<>>
            /\ runID' = Head(activeRuns)
            /\ activeRuns' = Tail(activeRuns)
            /\ pc' \in {"notify", "return"}
       /\ pc \in {"notify", "stop", "return"} => activeRuns' = activeRuns
       /\ (pc = "notify" /\ pc' # "notify") => pc' = "stop"
       /\ (pc = "stop" /\ pc' # "stop") => pc' = "return"
       /\ (pc = "return" /\ pc' # "return") =>
            pc' = IF activeRuns # <<>> THEN "check" ELSE "sleep"
       /\ (pc \in {"check", "notify", "stop"}) => pc' # "sleep"]_vars

\* the visit of one run met a failed notification and a failed terminate,
\* and another run of the list remains to be visited
C19_Witness ==
  /\ mode # "run" /\ pc = "return" /\ activeRuns # <<>>
  /\ notifyCalls = 1 /\ notifyErr /\ stopCalls = 1 /\ stopErr # "nil"

\* C20: in the three watch loops a poll is started only by the first
\* iteration or by a time.Sleep of the poll interval, the sleep is followed
\* by nothing but the next poll, and so exactly one wait of exactly
\* config.PollInterval seconds lies between two consecutive polls,
\* whichever path (fetch error, scan error, empty scan, end of the loop
\* body) led to the sleep
C20_OneWaitBetweenPolls ==
  /\ [](/\ pc = "poll" => waits \in {0, PollInterval}
        /\ pc # "poll" => waits = 0)
  /\ [][/\ pc' = "poll" =>
            \/ /\ pc = "sleep" /\ waits = 0 /\ waits' = PollInterval
            \/ UNCHANGED <<pc, pass, scan, waits>>
        /\ (pc = "sleep" /\ pc' # "sleep") => pc' = "poll"]_vars

\* a poll is about to start and one poll interval was waited before it
C20_Witness ==
  /\ pc = "poll" /\ waits = PollInterval

\* s writes the upper-case word in some mix of upper and lower case
Spells(s, word) ==
  /\ Len(s) = Len(word)
  /\ \A i \in 1..Len(word) : s[i] = word[i] \/ s[i] = LowerOf(word[i])

\* C12: with both channels selected SendNotification returns nil when at
\* least one of the two sends returned nil (a failed telegram send with a
\* successful slack send included), and returns an error only when both
\* sends failed, the error then being the telegram send's
C12_BothSucceedsIfOneDoes ==
  (pc = "sent" /\ Spells(messageChannels, ChannelBoth)) =>
    /\ sendErr = "nil" <=> (telegramErr = "nil" \/ slackErr = "nil")
    /\ sendErr # "nil" => sendErr = telegramErr

\* both selected, the telegram send failed, the slack send succeeded, and
\* nil was returned
C12_Witness ==
  /\ pc = "sent" /\ Spells(messageChannels, ChannelBoth)
  /\ telegramCalls = 1 /\ slackCalls = 1
  /\ telegramErr # "nil" /\ slackErr = "nil" /\ sendErr = "nil"

\* C13: with a single channel selected only that channel's send is
\* called, the other channel is neither called nor sent anything, and
\* SendNotification returns exactly what the selected send returned
C13_SingleChannelOnly ==
  /\ (pc = "sent" /\ Spells(messageChannels, ChannelTelegram)) =>
       /\ telegramCalls = 1 /\ slackCalls = 0 /\ slackPosts = 0
       /\ sendErr = telegramErr
  /\ (pc = "sent" /\ Spells(messageChannels, ChannelSlack)) =>
       /\ slackCalls = 1 /\ telegramCalls = 0 /\ telegramPosts = 0
       /\ sendErr = slackErr

\* slack selected, its send failed at the webhook, that error was
\* returned and telegram was left alone
C13_Witness ==
  /\ pc = "sent" /\ Spells(messageChannels, ChannelSlack)
  /\ slackCalls = 1 /\ slackPosts = 1 /\ slackErr = "slack: status code"
  /\ sendErr = slackErr /\ telegramCalls = 0

\* C14: the selection is compared without regard to case (any spelling
\* of telegram, slack or both selects that channel set), and an empty
\* selection does exactly what telegram does: only the telegram send is
\* called and its result is returned
C14_SelectionNormalized ==
  /\ pc \notin {"send"} =>
       /\ \A word \in {ChannelTelegram, ChannelSlack, ChannelBoth} :
            Spells(messageChannels, word) => channels = word
       /\ messageChannels = <<>> => channels = ChannelTelegram
  /\ pc \in {"slack", "result", "sent"} =>
       telegramCalls =
         IF \/ Spells(messageChannels, ChannelTelegram)
            \/ Spells(messageChannels, ChannelBoth)
            \/ messageChannels = <<>>
           THEN 1 ELSE 0
  /\ pc \in {"result", "sent"} =>
       slackCalls =
         IF \/ Spells(messageChannels, ChannelSlack)
            \/ Spells(messageChannels, ChannelBoth)
           THEN 1 ELSE 0
  /\ (pc = "sent" /\ messageChannels = <<>>) => sendErr = telegramErr

\* the selection was written "Slack" and the slack send was called
C14_Witness ==
  /\ pc = "sent" /\ messageChannels = <<"S", "l", "a", "c", "k">>
  /\ slackCalls = 1 /\ telegramCalls = 0

\* C15: a send on a channel whose credentials are absent fails whatever
\* the remote service answers: the telegram send returns an error when the
\* bot token or the chat ID is empty, and the slack send returns its
\* configuration error without sending anything when the webhook URL is
\* empty
C15_AbsentCredentialsFail ==
  /\ (telegramCalls = 1 /\ (telegramBotToken = "" \/ telegramChatID = ""))
       => telegramErr # "nil"
  /\ (slackCalls = 1 /\ slackWebhookURL = "") =>
       /\ slackErr = "slack: webhook URL is not configured"
       /\ slackPosts = 0

\* the reading at i is the most recent one of its key in the snapshot
MostRecent(snapshot, i) ==
  \A j \in 1..Len(snapshot.metrics) :
    snapshot.metrics[j].key = snapshot.metrics[i].key =>
      snapshot.metrics[j].step <= snapshot.metrics[i].step

\* C16: when a snapshot holds several readings of one key only the most
\* recent of them (the highest step) is compared with the bound: the
\* evaluation decides to stop exactly when the most recent reading of
\* some key is above its bound, so that an older reading above the bound
\* does not stop the run when the most recent one is not above it
C16_OnlyMostRecentCompared ==
  pc # "eval" =>
    (decision = "stop" <=>
       \E i \in 1..Len(run.metrics) :
         MostRecent(run, i) /\ Breaching(run, i))

\* the number, in ten-thousandths, that a string of digits with a point
\* before its last four digits stands for
RECURSIVE TenThousandths(_)
TenThousandths(chars) ==
  IF chars = <<>> THEN 0
  ELSE LET c == chars[Len(chars)]
           rest == TenThousandths(SubSeq(chars, 1, Len(chars) - 1)) IN
       IF c = "." THEN rest
       ELSE 10 * rest + (CHOOSE d \in 0..9 : DigitChars[d + 1] = c)

\* chars writes v with exactly four decimals: digits, a point, four
\* digits, no needless leading zero, and a distance from v of at most
\* half a ten-thousandth
Renders(chars, v) ==
  /\ Len(chars) >= 6
  /\ chars[Len(chars) - 4] = "."
  /\ \A i \in (1..Len(chars)) \ {Len(chars) - 4} :
       \E d \in DOMAIN DigitChars : DigitChars[d] = chars[i]
  /\ Len(chars) > 6 => chars[1] # "0"
  /\ LET n == 10 * TenThousandths(chars) IN
     n - v <= 5 /\ v - n <= 5

\* C18: the stop message names the run, the key of the reading that
\* triggered the stop (the first one above its bound), that reading's
\* value and that key's bound, both numbers with exactly four decimals;
\* for run r1, thresholds {loss: 0.5} and metrics [accuracy 0.9, loss 0.7]
\* it holds r1, loss, 0.7000 and 0.5000
C18_MessageNamesTheBreach ==
  decision = "stop" =>
    /\ \E b \in 1..Len(run.metrics) :
         /\ Breaching(run, b)
         /\ \A j \in 1..(b - 1) : ~Breaching(run, j)
         /\ Len(text) = 8
         /\ text[2] = runID
         /\ text[4] = run.metrics[b].key
         /\ Renders(text[6], run.metrics[b].value)
         /\ Renders(text[8], thresholds[run.metrics[b].key])
    /\ (/\ runID = "r1" /\ DOMAIN thresholds = {"loss"}
        /\ Len(run.metrics) = 2
        /\ run.metrics[1].key = "accuracy" /\ run.metrics[1].value = 90000
        /\ run.metrics[2].key = "loss" /\ run.metrics[2].value = 70000) =>
         /\ text[2] = "r1" /\ text[4] = "loss"
         /\ text[6] = <<"0", ".", "7", "0", "0", "0">>
         /\ text[8] = <<"0", ".", "5", "0", "0", "0">>

\* the example of the claim, and a value that %.4f has to round up
C18_Witness ==
  /\ decision = "stop" /\ runID = "r1" /\ DOMAIN thresholds = {"loss"}
  /\ Len(run.metrics) = 2
  /\ run.metrics[1].key = "accuracy" /\ run.metrics[1].value = 90000
  /\ run.metrics[2].key = "loss" /\ run.metrics[2].value = 70000
  /\ text[6] = <<"0", ".", "7", "0", "0", "0">>

\* C17: a shutdown signal ends the poll wait at once (the process is
\* ended in its sleep), and a terminate command that was already issued
\* when the signal arrives is completed before the watcher shuts down:
\* the process is never ended with the request of stopRun sent and its
\* response not yet received
C17_TerminateCompletesBeforeShutdown ==
  pc = "killed" => stopErr # "pending"

\* C22: with both channels selected every call of SendNotification calls
\* the telegram send once and the slack send once, whatever the telegram
\* send returned: once the slack branch is passed both counts are 1, for a
\* failed and for a successful telegram send alike
C22_BothAttemptedOnce ==
  Spells(messageChannels, ChannelBoth) =>
    /\ telegramCalls = (IF pc \in {"send", "telegram"} THEN 0 ELSE 1)
    /\ slackCalls = (IF pc \in {"send", "telegram", "slack"} THEN 0 ELSE 1)

\* both selected, the telegram send succeeded and the slack send was
\* called all the same
C22_Witness ==
  /\ pc = "sent" /\ Spells(messageChannels, ChannelBoth)
  /\ telegramCalls = 1 /\ telegramErr = "nil" /\ slackCalls = 1

\* the outcome of a formulation counts as empty: its request failed or
\* its list has no run
CountsAsEmpty(resp) == resp.kind # "ok" \/ resp.runs = <<>>

\* C24: in the global search a formulation whose request fails is treated
\* like one that lists no run: the next formulation is tried, the list of
\* the first formulation that lists a run is what is returned (also after
\* failed ones), and whatever the three outcomes are getAllActiveRuns
\* returns a nil error
C24_FailedFormulationIsEmpty ==
  (mode = "all" /\ resps # <<>>) =>
    /\ scanErr = "nil"
    /\ \A i \in 1..(Len(resps) - 1) : CountsAsEmpty(resps[i])
    /\ pc = "scan" =>
         CountsAsEmpty(resps[Len(resps)]) /\ Len(resps) < Len(requestBodies)
    /\ (pc # "scan" /\ CountsAsEmpty(resps[Len(resps)])) =>
         Len(resps) = Len(requestBodies) /\ activeRuns = <<>> /\ pc = "sleep"
    /\ (pc # "scan" /\ ~CountsAsEmpty(resps[Len(resps)])) =>
         activeRuns = resps[Len(resps)].runs /\ pc = "check"

\* the first two formulations failed, the third listed a run, and that
\* list was returned with no error
C24_Witness ==
  /\ mode = "all" /\ pc = "check" /\ Len(resps) = 3
  /\ resps[1].kind = "transport" /\ resps[2].kind = "unparsable"
  /\ resps[3].kind = "ok" /\ activeRuns = resps[3].runs
  /\ scanErr = "nil"

\* C23: a terminate command is issued only by the pass that has just
\* fetched the run and found a reading of it above its bound, it names
\* that run and asks for the status FAILED: the step that issues it is the
\* stopRun of a pass that decided to stop on a fetched snapshot, the run
\* recorded as asked to stop is the run of that pass, no other run's
\* status changes, and the status it can change to is FAILED
C23_TerminateTargetsTheBreachedRun ==
  [][(stopCalls' = stopCalls + 1 \/ stopIssued' # stopIssued
        \/ \E r \in RunIDs : status'[r] # status[r]
                               /\ status'[r] # "FINISHED") =>
       /\ pc = "stop" /\ stopCalls = 0 /\ stopCalls' = 1
       /\ fetchErr = "nil" /\ decision = "stop"
       /\ \E i \in 1..Len(run.metrics) : Breaching(run, i)
       /\ msg.runID = runID /\ runID' = runID
       /\ stopIssued' = stopIssued \cup {runID}
       /\ \A r \in RunIDs \ {runID} : status'[r] = status[r]
       /\ status'[runID] = IF stopErr' = "nil" THEN "FAILED"
                           ELSE status[runID]]_vars

\* in a fleet cycle the terminate command for one run was answered with
\* 200: that run is FAILED and the other run is still running
C23_Witness ==
  /\ mode # "run" /\ stopCalls = 1 /\ stopErr = "nil"
  /\ status[runID] = "FAILED"
  /\ \E r \in RunIDs \ {runID} : status[r] = "RUNNING"

\* the selection is not empty and is no spelling of a channel name
UnknownSelection ==
  /\ messageChannels # <<>>
  /\ ~Spells(messageChannels, ChannelTelegram)
  /\ ~Spells(messageChannels, ChannelSlack)
  /\ ~Spells(messageChannels, ChannelBoth)

\* C25: for a selection that is not empty and, upper-cased, is none of
\* TELEGRAM, SLACK and BOTH, SendNotification calls neither send, sends
\* nothing and returns nil; its caller therefore sees a notification
\* without error and goes on to the terminate command, which is issued
\* once
C25_UnknownSelectionSendsNothing ==
  /\ [](UnknownSelection =>
          /\ telegramCalls = 0 /\ slackCalls = 0
          /\ telegramPosts = 0 /\ slackPosts = 0
          /\ pc \in {"sent", "stop", "returned"} => sendErr = "nil"
          /\ pc \in {"stop", "returned"} => notifyCalls = 1 /\ ~notifyErr
          /\ pc = "returned" => stopCalls = 1 /\ runID \in stopIssued)
  /\ [][UnknownSelection =>
          /\ (pc = "sent" /\ pc' # "sent") => pc' = "stop"
          /\ (pc = "stop" /\ pc' # "stop") => stopCalls' = 1]_vars

\* the selection was "all": nothing was sent, the caller saw no error, and
\* the terminate command was issued and answered with 200
C25_Witness ==
  /\ messageChannels = <<"a", "l", "l">> /\ pc = "returned"
  /\ telegramCalls = 0 /\ slackCalls = 0 /\ sendErr = "nil"
  /\ notifyCalls = 1 /\ ~notifyErr
  /\ stopCalls = 1 /\ stopErr = "nil" /\ status[runID] = "FAILED"

\* the fetch of the single-run watcher was answered with a snapshot that
\* ends the watch: the run is no longer running, or a reading of it is
\* above its bound
EndingAnswer ==
  /\ mode = "run" /\ fetchErr = "nil"
  /\ decision \in {"ended", "stop"}

\* C21: once the fetch of the single-run watcher is answered with a
\* status other than RUNNING or with a breaching snapshot,
\* MonitorSpecificRun returns, and after it has returned it does nothing
\* more: no fetch, no notification, no terminate command, no wait
C21_SingleRunWatcherEnds ==
  /\ [](EndingAnswer => <>(pc = "returned"))
  /\ [][pc = "returned" => UNCHANGED <<pc, pass, scan, waits, stopIssued>>]_vars

\* the watcher has returned after a breach, with its notification and
\* its terminate command made once
C21_Witness ==
  /\ mode = "run" /\ pc = "returned" /\ decision = "stop"
  /\ notifyCalls = 1 /\ stopCalls = 1

\* C26: the experiment and the global watch loop never return, whatever
\* the tracking service answers, and always start another scan; only the
\* single-run watcher reaches the returned state
C26_FleetLoopsNeverEnd ==
  /\ [](pc = "returned" => mode = "run")
  /\ []<>(mode # "run" => pc = "poll")
  /\ [][mode # "run" /\ pc = "sleep" /\ pc' # "sleep" => pc' = "poll"]_vars

\* a fleet loop is about to scan again after a cycle in which the
\* terminate command for a run was issued
C26_Witness ==
  /\ mode # "run" /\ pc = "poll" /\ waits = PollInterval
  /\ stopIssued # {}

\* what the current program is about to do, in the terms of the legacy
\* step function
View ==
  [pc |-> pc,
   runID |-> IF pc \in {"notify", "stop"} THEN runID ELSE "",
   rest |-> activeRuns,
   sent |-> IF pc = "scan" THEN Len(posted) ELSE 0,
   slept |-> waits]

\* C27: the legacy loops and the current loops do the same on the
\* tracking-service side. Both start at the first poll; whenever the
\* current program takes a step, the legacy program taking its step from
\* the same point on the same answer of the tracking service arrives at
\* the same point: the same next fetch, search, wait or terminate command
\* for the same run, or a notification attempt (whose notifier differs
\* and whose result neither program uses); and the bodies of the searches
\* and of the terminate command are the same in both
C27_LegacyTakesTheSameSteps ==
  /\ [](/\ legacy_requestBodies = requestBodies
        /\ \A id \in RunIDs : legacy_requestBody(id) = requestBody(id))
  /\ [][View' # View =>
          View' = legacy_step(View,
                              [err |-> fetchErr', run |-> run'],
                              IF resps' = <<>> THEN [kind |-> "none"]
                              ELSE resps'[Len(resps')])]_vars

\* a fleet cycle in which a finished run was fetched, found above its
\* bound and is about to be notified of: the legacy checkRunMetrics has no
\* status test either
C27_Witness ==
  /\ mode # "run" /\ pc = "notify" /\ run.status = "FINISHED"
  /\ legacy_exceeded(run)
====
